---- MODULE Spec2Model ----
(***************************************************************************)
(* Model of src/models/model.py: BestFilterFinder, the grid search over    *)
(* smoothing filters.  Four specifications share the variables:            *)
(*   SpecGrid      the three grid generators, up to their hand-off of the  *)
(*                 candidate list to _grid_search;                         *)
(*   SpecEvaluate  one call of _train_and_evaluate;                        *)
(*   SpecSearch / SpecRows  _grid_search from its entry: the worker pool,  *)
(*                 the ordered collection of imap, the ranking and the     *)
(*                 assembly of the returned bundle.                        *)
(***************************************************************************)
EXTENDS Integers, Sequences, FiniteSets, TLC

VARIABLES
    pc,                  \* control point of the modelled call
    variable_len,        \* len(variable): the series has rows 0 .. variable_len-1
    p, q,                \* arguments of the grid generators; q is <<>> for None
    validation_percent,  \* self._validation_percent, in tenths
    metric_name,         \* self._metric_name
    model_name,          \* self._model_name
    estimator,           \* what the external estimator and metrics may give
    get_filter_method,   \* the filter family handed to _grid_search
    q_range,             \* local of the grid generators
    all_variants,        \* the candidate list
    next_task,           \* pool: index of the next task the task queue hands out
    worker,              \* pool: per worker process, the task it runs (0: idle)
    cache,               \* pool: outcome of each finished task, by task index
    results,             \* list(...) being built from the imap iterator
    evaluated,           \* per task, the outcomes of its evaluations so far
    fitted,              \* per task, the estimator object its evaluation fitted
    fresh,               \* number of LinearRegression() objects constructed
    evaluation,          \* SpecEvaluate: what _train_and_evaluate computed
    bundle,              \* the GridSearchResult returned by _grid_search
    error                \* the exception that left _grid_search

vars == <<pc, variable_len, p, q, validation_percent, metric_name, model_name,
          estimator, get_filter_method, q_range, all_variants, next_task, worker,
          cache, results, evaluated, fitted, fresh, evaluation, bundle, error>>


(***************************************************************************)
(* CPython floats are IEEE-754 binary64, and the split point and the grid  *)
(* bound are computed in them.  Their 53-bit significands do not fit the   *)
(* integers of TLC, so a natural number of up to 75 bits is kept as five   *)
(* limbs of 15 bits, least significant first.                              *)
(***************************************************************************)
LimbBase == 2^15

Limb(x, i) == IF i \in 1..5 THEN x[i] ELSE 0

BigOfNat(n) ==
    <<n % LimbBase, (n \div LimbBase) % LimbBase, n \div (LimbBase * LimbBase), 0, 0>>

NatOfBig(x) == x[1] + LimbBase * x[2]

\* 2^k
BigPow2(k) == [i \in 1..5 |-> IF i = k \div 15 + 1 THEN 2^(k % 15) ELSE 0]

\* x * n, for a natural n < 2^15
BigMulSmall(x, n) ==
    LET t1 == x[1] * n
        t2 == x[2] * n + t1 \div LimbBase
        t3 == x[3] * n + t2 \div LimbBase
        t4 == x[4] * n + t3 \div LimbBase
        t5 == x[5] * n + t4 \div LimbBase
    IN  <<t1 % LimbBase, t2 % LimbBase, t3 % LimbBase, t4 % LimbBase, t5 % LimbBase>>

\* x - y, for x >= y
BigSub(x, y) ==
    LET d1 == x[1] - y[1]
        d2 == x[2] - y[2] - (IF d1 < 0 THEN 1 ELSE 0)
        d3 == x[3] - y[3] - (IF d2 < 0 THEN 1 ELSE 0)
        d4 == x[4] - y[4] - (IF d3 < 0 THEN 1 ELSE 0)
        d5 == x[5] - y[5] - (IF d4 < 0 THEN 1 ELSE 0)
    IN  <<(d1 + LimbBase) % LimbBase, (d2 + LimbBase) % LimbBase,
          (d3 + LimbBase) % LimbBase, (d4 + LimbBase) % LimbBase,
          (d5 + LimbBase) % LimbBase>>

\* x + 1
BigIncrement(x) ==
    LET z == CHOOSE i \in 1..5 :
                 x[i] # LimbBase - 1 /\ \A j \in 1..(i - 1) : x[j] = LimbBase - 1
    IN  [i \in 1..5 |-> IF i < z THEN 0 ELSE IF i = z THEN x[i] + 1 ELSE x[i]]

\* Quotient and remainder of x by a small natural d > 0: long division from the
\* most significant limb
BigDivSmall(x, d) ==
    LET t5 == x[5]
        t4 == (t5 % d) * LimbBase + x[4]
        t3 == (t4 % d) * LimbBase + x[3]
        t2 == (t3 % d) * LimbBase + x[2]
        t1 == (t2 % d) * LimbBase + x[1]
    IN  [quot |-> <<t1 \div d, t2 \div d, t3 \div d, t4 \div d, t5 \div d>>,
         rem  |-> t1 % d]

\* floor(x / 2^s)
BigShiftRight(x, s) ==
    LET w == s \div 15
        r == s % 15
    IN  [i \in 1..5 |-> Limb(x, i + w) \div 2^r
                         + (Limb(x, i + w + 1) % 2^r) * 2^(15 - r)]

\* bit k of x (bit 0 is the least significant)
BigBit(x, k) == (Limb(x, k \div 15 + 1) \div 2^(k % 15)) % 2

\* x mod 2^k = 0
BigLowZero(x, k) ==
    \A i \in 1..5 :
        IF i <= k \div 15 THEN x[i] = 0
        ELSE i = k \div 15 + 1 => x[i] % 2^(k % 15) = 0

\* number of significant bits of x
BigBitLen(x) ==
    IF \A i \in 1..5 : x[i] = 0 THEN 0
    ELSE LET top == CHOOSE i \in 1..5 : x[i] # 0 /\ \A j \in (i + 1)..5 : x[j] = 0
         IN  15 * (top - 1) + (CHOOSE k \in 1..15 : 2^(k - 1) <= x[top] /\ x[top] < 2^k)

\* binary64 keeps 53 significant bits
Precision == 53

\* A binary64 value is [m, e], standing for m * 2^e, with m of at most
\* Precision bits.  RoundToDouble gives the binary64 nearest to x * 2^e (plus a
\* fraction of its last bit when inexact is TRUE), ties to even.
RoundToDouble(x, e, inexact) ==
    LET L == BigBitLen(x)
        s == L - Precision
    IN  IF s <= 0 THEN [m |-> x, e |-> e]
        ELSE LET keep   == BigShiftRight(x, s)
                 guard  == BigBit(x, s - 1)
                 sticky == inexact \/ ~BigLowZero(x, s - 1)
                 up     == guard = 1 /\ (sticky \/ BigBit(keep, 0) = 1)
                 r      == IF up THEN BigIncrement(keep) ELSE keep
             IN  IF BigBitLen(r) > Precision
                 THEN [m |-> BigShiftRight(r, 1), e |-> e + s + 1]
                 ELSE [m |-> r, e |-> e + s]

\* The binary64 nearest to the decimal num/den (1/20 <= num/den < 20): what a
\* float literal such as 0.1 denotes.
FloatOfDecimal(num, den) ==
    LET d == BigDivSmall(BigMulSmall(BigPow2(64), num), den)
    IN  RoundToDouble(d.quot, -64, d.rem # 0)

\* 1 - x, for a binary64 0 < x < 1
FloatOneMinus(x) == RoundToDouble(BigSub(BigPow2(-x.e), x.m), x.e, FALSE)

\* n * x, for an int 0 <= n < 2^15 (converted exactly) and a binary64 x
FloatMul(n, x) == RoundToDouble(BigMulSmall(x.m, n), x.e, FALSE)

\* int(x): truncation towards zero, for a binary64 0 <= x < 2^30
IntOfFloat(x) ==
    IF x.e >= 0 THEN NatOfBig(x.m) * 2^x.e ELSE NatOfBig(BigShiftRight(x.m, -x.e))

Min(a, b) == IF a < b THEN a ELSE b

(***************************************************************************)
(* Bounds of the model.                                                    *)
(***************************************************************************)
MaxSeriesLen == 1070   \* SpecGrid: series lengths 0 .. MaxSeriesLen
MaxQ == 2              \* SpecGrid: a given q is in 0 .. MaxQ
MaxP == 1              \* AR orders 0 .. MaxP
MaxLen == 20           \* SpecEvaluate, SpecRows: series lengths 1 .. MaxLen
MaxLag == 1            \* SpecEvaluate, SpecRows: candidates have q in 0 .. MaxLag
MaxWindow == 3         \* SpecEvaluate, SpecRows: windows 0 .. MaxWindow
MaxCandidates == 2     \* SpecSearch: candidate lists of 0 .. MaxCandidates
MaxMetric == 1         \* SpecSearch: each metric is in 0 .. MaxMetric
Processes == 2         \* self._processes: the pool has workers 1 .. Processes

Tenths == 1..9         \* validation_percent is 0.1, 0.2, ..., 0.9

Workers == 1..Processes

(***************************************************************************)
(* The named tuples and the module-level mapping (lines 21-34).            *)
(***************************************************************************)
MODEL_MAPPING ==
    {"LinearRegression", "RidgeRegression", "LassoRegression", "SVM",
     "XGBoostRegression", "RandomForestRegression"}

MovingAverageGridParams(qq, ma, pp) == [q |-> qq, moving_average |-> ma, p |-> pp]

ExpMovingAverageGridParams(qq, a, pp) == [q |-> qq, alpha |-> a, p |-> pp]

KalmanGridParams(qq, pp) == [q |-> qq, p |-> pp]

FinalMetrics(mae, mse, r2) == [mae |-> mae, mse |-> mse, r2 |-> r2]

(***************************************************************************)
(* The grid generators (lines 126-156).                                    *)
(***************************************************************************)
\* range(start, stop, step) as a sequence
PyRange(start, stop, step) ==
    LET count == IF stop > start THEN (stop - start + step - 1) \div step ELSE 0
    IN  [i \in 1..count |-> start + (i - 1) * step]

\* itertools.product(a, b): the pairs, the first component varying slowest
Product(a, b) ==
    [k \in 1..(Len(a) * Len(b)) |->
        <<a[((k - 1) \div Len(b)) + 1], b[((k - 1) % Len(b)) + 1]>>]

GridLimit == 105

GridStep == 5

\* The range with the bound 0.1 * len(variable) taken as the real number it
\* is, not truncated: range(1, min(ceil(len(variable) * 0.1), 105), 5)
GridRangeUntruncated(n) == PyRange(1, Min((n + 9) \div 10, GridLimit), GridStep)

\* range(1, min(int(len(variable) * 0.1), 105), 5)
GridRange(n) ==
    PyRange(1, Min(IntOfFloat(FloatMul(n, FloatOfDecimal(1, 10))), GridLimit), GridStep)

\* q_range = range(...) if q is None else [q]
QRange(n, qq) == IF qq = <<>> THEN GridRange(n) ELSE <<qq[1]>>

\* np.arange(0.01, 1, 0.04), in hundredths
AlphaRange == PyRange(1, 100, 4)

\* The product of the two ranges alone, q varying fastest and no baseline
MovingAverageProduct(n, pp, qq) ==
    LET pairs == Product(GridRange(n), QRange(n, qq))
    IN  [k \in 1..Len(pairs) |-> MovingAverageGridParams(pairs[k][2], pairs[k][1], pp)]

\* lines 126-132
MovingAverageVariants(n, pp, qq) ==
    LET pairs == Product(QRange(n, qq), GridRange(n))
    IN  <<MovingAverageGridParams(0, 0, pp)>> \o
        [k \in 1..Len(pairs) |-> MovingAverageGridParams(pairs[k][1], pairs[k][2], pp)]

\* lines 137-143
ExpMovingAverageVariants(n, pp, qq) ==
    LET pairs == Product(QRange(n, qq), AlphaRange)
    IN  [k \in 1..Len(pairs) |-> ExpMovingAverageGridParams(pairs[k][1], pairs[k][2], pp)]

KalmanVariants(n, pp, qq) ==
    LET qs == QRange(n, qq)
    IN  [k \in 1..Len(qs) |-> KalmanGridParams(qs[k], pp)]

(***************************************************************************)
(* The series, the filters and the feature table.  A table is the sequence *)
(* of the positions 0 .. n-1 of its rows; row i carries Timestamp(i).      *)
(***************************************************************************)
\* variable.index: strictly increasing labels, not the positions
Timestamp(i) == 100 + 3 * i

Rows(n) == [i \in 1..n |-> i - 1]

\* t.iloc[a:b]
ILoc(t, a, b) == SubSeq(t, Min(a, Len(t)) + 1, Min(b, Len(t)))

\* Whether the filtered series has a value in row i: rolling(window).mean()
\* needs window samples (and has none for window 0); ewm(...).mean() and the
\* Kalman smoother have a value in every row.
FilterDefined(f, c, i) ==
    IF f = "get_moving_average_filter"
    THEN c.moving_average >= 1 /\ i >= c.moving_average - 1
    ELSE TRUE

\* create_ar_filter_table: lags 1..p of the series and lags 1..q of the
\* filtered series; row i is defined when all of them are
FeaturesDefined(f, c, i) ==
    /\ i >= c.p
    /\ \A j \in 1..c.q : i - j >= 0 /\ FilterDefined(f, c, i - j)

\* create_next_day_price: the value of the next row; the last row has none
TargetDefined(i, n) == i + 1 <= n - 1

\* The series of SpecSearch: long enough for every candidate to train on
SearchLen == 2 * MaxCandidates + 2

\* int(len(variable) * (1 - self._validation_percent)) for the lengths and the
\* validation percents of the model, v in tenths
SplitPoints ==
    [n \in 0..(MaxLen + SearchLen) |->
        [v \in Tenths |-> IntOfFloat(FloatMul(n, FloatOneMinus(FloatOfDecimal(v, 10))))]]

SplitPoint(n, v) == SplitPoints[n][v]

\* x.dropna() of a slice t of the table with its next_day_price column
DropNa(t, f, c, n) ==
    SelectSeq(t, LAMBDA i : FeaturesDefined(f, c, i) /\ TargetDefined(i, n))

\* x_train and x_test as sliced (lines 83-86)
XTrain(n, v) == ILoc(Rows(n), 0, SplitPoint(n, v))

XTest(n, v) == ILoc(Rows(n), SplitPoint(n, v), n)

\* self._load_model(): the instance of MODEL_MAPPING in the calling process w
\* for a known name, else the LinearRegression() constructed by this call
LoadModel(name, w, k) ==
    IF name \in MODEL_MAPPING THEN <<"MODEL_MAPPING", name, w>>
    ELSE <<"LinearRegression()", name, k>>

\* What the estimator and the metrics may give for one candidate: failure of
\* fit or predict, or the three scores
Outcomes(e) ==
    (IF e.may_fail THEN {[ok |-> FALSE]} ELSE {}) \cup
    {[ok |-> TRUE, metrics |-> m] : m \in e.metrics}

\* lines 89-97 on the partitions left by dropna: fit and predict raise on an
\* empty partition; o is what estimator and metrics give otherwise.  A
\* prediction is tagged with the row it is for and the candidate it was made
\* under.
FitPredictScore(x_train, x_test, c, o) ==
    IF x_train = <<>> \/ x_test = <<>>
    THEN [ok |-> FALSE, value |-> [exc |-> "ValueError", params |-> c]]
    ELSE IF ~o.ok
    THEN [ok |-> FALSE, value |-> [exc |-> "FitError", params |-> c]]
    ELSE [ok |-> TRUE,
          value |-> << [j \in 1..Len(x_test) |->
                           [timestamp |-> Timestamp(x_test[j]), by |-> c]],
                       o.metrics >>]

\* _train_and_evaluate(grid_params = c, variable, get_filter_method = f)
TrainAndEvaluate(c, f, n, v, o) ==
    FitPredictScore(DropNa(XTrain(n, v), f, c, n), DropNa(XTest(n, v), f, c, n), c, o)

(***************************************************************************)
(* Ranking and assembly (lines 112-124).                                   *)
(***************************************************************************)
Zip(a, b) == [i \in 1..Min(Len(a), Len(b)) |-> <<a[i], b[i]>>]

\* key=lambda x: getattr(x[1][1], self._metric_name)
SortKey(x, name) == x[2][2][name]

\* sorted(pairs, key=...) reversed afterwards for the descending direction:
\* equal elements then come out in the reverse of their input order
SortedThenReversed(pairs, name, reverse) ==
    LET before(j, i) ==
            \/ SortKey(pairs[j], name) < SortKey(pairs[i], name)
            \/ SortKey(pairs[j], name) = SortKey(pairs[i], name) /\ j < i
        place(i) == 1 + Cardinality({j \in 1..Len(pairs) : before(j, i)})
        ascending == [k \in 1..Len(pairs) |-> pairs[CHOOSE i \in 1..Len(pairs) : place(i) = k]]
    IN  IF reverse THEN [k \in 1..Len(pairs) |-> ascending[Len(pairs) + 1 - k]]
        ELSE ascending

\* sorted(pairs, key=..., reverse=...): stable in both directions, so an element
\* goes after those that sort strictly before it and after the equal ones
\* that precede it in the input
Sorted(pairs, name, reverse) ==
    LET before(j, i) ==
            \/ IF reverse THEN SortKey(pairs[j], name) > SortKey(pairs[i], name)
                          ELSE SortKey(pairs[j], name) < SortKey(pairs[i], name)
            \/ SortKey(pairs[j], name) = SortKey(pairs[i], name) /\ j < i
        place(i) == 1 + Cardinality({j \in 1..Len(pairs) : before(j, i)})
    IN  [k \in 1..Len(pairs) |-> pairs[CHOOSE i \in 1..Len(pairs) : place(i) = k]]

\* A finder that minimizes whatever the metric
NeverMaximize(name) == FALSE

\* self._metric_maximize
MetricMaximize(name) == name = "r2"

\* create_next_day_price(variable)[int(len * (1 - v)):], the last row kept
YTestUndropped(n, v) == ILoc(Rows(n), SplitPoint(n, v), n)

\* create_next_day_price(variable).dropna()[int(len * (1 - v)):], as rows
YTest(n, v) ==
    LET price == SelectSeq(Rows(n), LAMBDA i : TargetDefined(i, n))
    IN  ILoc(price, SplitPoint(n, v), Len(price))

\* get_filter_method(variable, c).loc[index]: the rows of the filtered series
\* carrying the labels of index, in the order of index
BestFilter(n, c, index) ==
    [j \in 1..Len(index) |->
        [timestamp |-> Timestamp(CHOOSE i \in 0..(n - 1) : Timestamp(i) = index[j]),
         by |-> c]]

\* lines 122-124
Bundle(best_result, y_test, n) ==
    [y_test       |-> y_test,
     best_filter  |-> BestFilter(n, best_result[1], y_test),
     best_predict |-> best_result[2][1],
     best_params  |-> best_result[1],
     best_metrics |-> best_result[2][2]]

\* lines 112-124: best_result = sorted_results[0]
GridSearchResult(variants, res, n, v, name) ==
    Bundle(Sorted(Zip(variants, res), name, MetricMaximize(name))[1],
           [j \in 1..Len(YTest(n, v)) |-> Timestamp(YTest(n, v)[j])], n)

(***************************************************************************)
(* SpecGrid: a grid generator is called with a series of variable_len rows, *)
(* p and q; it builds q_range and all_variants and hands them to           *)
(* _grid_search, which SpecSearch and SpecRows model from its entry.       *)
(***************************************************************************)
Families ==
    {"get_moving_average_filter", "get_exp_moving_average_filter", "get_kalman_filter"}

MetricNames == {"mae", "mse", "r2"}

PoolIdle(variants) ==
    /\ next_task = 1
    /\ worker = [w \in Workers |-> 0]
    /\ cache = [i \in 1..Len(variants) |-> [done |-> FALSE]]
    /\ results = <<>>
    /\ evaluated = [i \in 1..Len(variants) |-> <<>>]
    /\ fitted = [i \in 1..Len(variants) |-> <<>>]
    /\ fresh = 0
    /\ evaluation = <<>>
    /\ bundle = <<>>
    /\ error = <<>>

InitGrid ==
    /\ pc = "call"
    /\ variable_len \in 0..MaxSeriesLen
    /\ p \in 0..MaxP
    /\ q \in {<<>>} \cup {<<x>> : x \in 0..MaxQ}
    /\ validation_percent = 2
    /\ metric_name = "mae"
    /\ model_name = "LinearRegression"
    /\ estimator = [may_fail |-> FALSE, metrics |-> {FinalMetrics(0, 0, 0)}]
    /\ get_filter_method = ""
    /\ q_range = <<>>
    /\ all_variants = <<>>
    /\ PoolIdle(<<>>)

grid_search_moving_average ==
    /\ pc = "call"
    /\ q_range' = QRange(variable_len, q)
    /\ all_variants' = MovingAverageVariants(variable_len, p, q)
    /\ get_filter_method' = "get_moving_average_filter"
    /\ pc' = "_grid_search"
    /\ UNCHANGED <<variable_len, p, q, validation_percent, metric_name, model_name,
                   estimator, next_task, worker, cache, results, evaluated, fitted,
                   fresh, evaluation, bundle, error>>

grid_search_exp_moving_average ==
    /\ pc = "call"
    /\ q_range' = QRange(variable_len, q)
    /\ all_variants' = ExpMovingAverageVariants(variable_len, p, q)
    /\ get_filter_method' = "get_exp_moving_average_filter"
    /\ pc' = "_grid_search"
    /\ UNCHANGED <<variable_len, p, q, validation_percent, metric_name, model_name,
                   estimator, next_task, worker, cache, results, evaluated, fitted,
                   fresh, evaluation, bundle, error>>

grid_search_kalman ==
    /\ pc = "call"
    /\ q_range' = QRange(variable_len, q)
    /\ all_variants' = KalmanVariants(variable_len, p, q)
    /\ get_filter_method' = "get_kalman_filter"
    /\ pc' = "_grid_search"
    /\ UNCHANGED <<variable_len, p, q, validation_percent, metric_name, model_name,
                   estimator, next_task, worker, cache, results, evaluated, fitted,
                   fresh, evaluation, bundle, error>>

NextGrid ==
    \/ grid_search_moving_average
    \/ grid_search_exp_moving_average
    \/ grid_search_kalman

SpecGrid == InitGrid /\ [][NextGrid]_vars

(***************************************************************************)
(* Properties of the grid generators, checked under SpecGrid.              *)
(***************************************************************************)
Range(s) == {s[i] : i \in DOMAIN s}

\* C6, as stated: in the three generators q_range is [q] when q is given, and
\* when q is omitted it is the set of the integers 1 + 5j, j >= 0, strictly
\* less than min(0.1 * n, 105), 0.1 * n being the real number.
C6_QRangeBelowTenth ==
    pc = "_grid_search" =>
        IF q # <<>>
        THEN q_range = <<q[1]>>
        ELSE Range(q_range) =
                 {x \in 0..105 : x % 5 = 1 /\ 10 * x < variable_len /\ x < 105}

\* C6, amended: when q is omitted q_range is, in increasing order, the integers
\* 1 + 5j, j >= 0, strictly less than min(floor(0.1 * n), 105); when q is given
\* it is [q].
C6_QRangeBelowFloorOfTenth ==
    pc = "_grid_search" =>
        IF q # <<>>
        THEN q_range = <<q[1]>>
        ELSE /\ Range(q_range) =
                    {x \in 0..105 : x % 5 = 1 /\ x < variable_len \div 10 /\ x < 105}
             /\ \A i \in 1..(Len(q_range) - 1) : q_range[i] < q_range[i + 1]

\* A generator was called without q on a series of 11 to 19 rows, where 1 is
\* below 0.1 * n and not below its floor, and built the empty q_range
C6_Witness ==
    /\ pc = "_grid_search"
    /\ q = <<>>
    /\ variable_len \in 11..19
    /\ q_range = <<>>

\* C7: the list built by grid_search_moving_average is the sentinel
\* (q = 0, window = 0, p) followed by (q, window, p) for the pairs of
\* q_range x window_range in product order; the sentinel is first and occurs
\* once, also when the product is empty; every candidate carries p; the list
\* has 1 + |q_range| * |window_range| entries; window_range is swept also when
\* q is given.
C7_MovingAverageGrid ==
    pc = "_grid_search" /\ get_filter_method = "get_moving_average_filter" =>
        LET ws == [i \in 1..Cardinality({x \in 1..104 : x % 5 = 1 /\ x < variable_len \div 10})
                      |-> 5 * i - 4]
            qs == IF q # <<>> THEN <<q[1]>> ELSE ws
            sentinel == [q |-> 0, moving_average |-> 0, p |-> p]
        IN  /\ Len(all_variants) = 1 + Len(qs) * Len(ws)
            /\ all_variants[1] = sentinel
            /\ \A k \in 2..Len(all_variants) : all_variants[k] # sentinel
            /\ \A k \in 1..Len(all_variants) : all_variants[k].p = p
            /\ \A i \in 1..Len(qs), j \in 1..Len(ws) :
                   all_variants[1 + (i - 1) * Len(ws) + j] =
                       [q |-> qs[i], moving_average |-> ws[j], p |-> p]

\* grid_search_moving_average was called with a given q on a series long enough
\* for several windows
C7_Witness ==
    /\ pc = "_grid_search"
    /\ get_filter_method = "get_moving_average_filter"
    /\ q # <<>>
    /\ Len(all_variants) >= 3


(***************************************************************************)
(* SpecEvaluate: one call of _train_and_evaluate.                          *)
(***************************************************************************)
\* The candidates of a family with small lags and windows
SmallVariants(f) ==
    IF f = "get_moving_average_filter"
    THEN {MovingAverageGridParams(a, w, b) :
              a \in 0..MaxLag, w \in 0..MaxWindow, b \in 0..MaxP}
    ELSE IF f = "get_exp_moving_average_filter"
    THEN {ExpMovingAverageGridParams(a, AlphaRange[1], b) : a \in 0..MaxLag, b \in 0..MaxP}
    ELSE {KalmanGridParams(a, b) : a \in 0..MaxLag, b \in 0..MaxP}

InitEvaluate ==
    /\ pc = "_train_and_evaluate"
    /\ variable_len \in 1..MaxLen
    /\ validation_percent \in Tenths
    /\ metric_name = "mae"
    /\ model_name = "LinearRegression"
    /\ estimator = [may_fail |-> TRUE, metrics |-> {FinalMetrics(0, 0, 0)}]
    /\ get_filter_method \in Families
    /\ all_variants \in {<<c>> : c \in SmallVariants(get_filter_method)}
    /\ p = 0
    /\ q = <<>>
    /\ q_range = <<>>
    /\ PoolIdle(<<>>)

train_and_evaluate ==
    /\ pc = "_train_and_evaluate"
    /\ \E o \in Outcomes(estimator) :
          evaluation' =
              [x_train |-> XTrain(variable_len, validation_percent),
               x_test  |-> XTest(variable_len, validation_percent),
               result  |-> TrainAndEvaluate(all_variants[1], get_filter_method,
                                            variable_len, validation_percent, o)]
    /\ pc' = "evaluated"
    /\ UNCHANGED <<variable_len, p, q, validation_percent, metric_name, model_name,
                   estimator, get_filter_method, q_range, all_variants, next_task,
                   worker, cache, results, evaluated, fitted, fresh, bundle, error>>

NextEvaluate == train_and_evaluate

SpecEvaluate == InitEvaluate /\ [][NextEvaluate]_vars

\* C5: _train_and_evaluate splits at k = floor(n * (1 - v)): the train
\* partition is exactly rows 0..k-1 and the test partition exactly rows
\* k..n-1 (so they are disjoint, cover every row, train precedes test, and k
\* depends on n and v only).
C5_SplitAtFloor ==
    pc = "evaluated" =>
        LET k == (variable_len * (10 - validation_percent)) \div 10
        IN  /\ evaluation.x_train = [i \in 1..k |-> i - 1]
            /\ evaluation.x_test = [i \in 1..(variable_len - k) |-> k + i - 1]

(***************************************************************************)
(* _grid_search (lines 99-124).  pool.imap hands the candidates to the      *)
(* worker processes in list order, one at a time; a worker that finished a  *)
(* task takes the next; the iterator yields the outcomes in list order, and *)
(* raises the exception of a failed task when it reaches it; leaving the    *)
(* with block terminates the pool.                                          *)
(***************************************************************************)
\* an iterator that yields the outcomes from the last task to the first
ImapLastFirst(res, c) == Len(c) - Len(res)

\* the task whose outcome the imap iterator yields next
ImapNext(res, c) == Len(res) + 1

TaskStart(w) ==
    /\ pc = "imap"
    /\ worker[w] = 0
    /\ next_task <= Len(all_variants)
    /\ worker' = [worker EXCEPT ![w] = next_task]
    /\ next_task' = next_task + 1
    /\ UNCHANGED <<pc, variable_len, p, q, validation_percent, metric_name,
                   model_name, estimator, get_filter_method, q_range, all_variants,
                   cache, results, evaluated, fitted, fresh, evaluation, bundle,
                   error>>

\* the worker process w puts the outcome out of task i into the result queue
Finish(w, i, out) ==
    /\ cache' = [cache EXCEPT ![i] = [done |-> TRUE, ok |-> out.ok, value |-> out.value]]
    /\ evaluated' = [evaluated EXCEPT ![i] = Append(@, out)]
    /\ fitted' = [fitted EXCEPT ![i] = LoadModel(model_name, w, fresh + 1)]
    /\ fresh' = fresh + 1
    /\ worker' = [worker EXCEPT ![w] = 0]

TaskFinish(w) ==
    /\ pc = "imap"
    /\ worker[w] # 0
    /\ \E o \in Outcomes(estimator) :
          Finish(w, worker[w],
                 TrainAndEvaluate(all_variants[worker[w]], get_filter_method,
                                  variable_len, validation_percent, o))
    /\ UNCHANGED <<pc, variable_len, p, q, validation_percent, metric_name,
                   model_name, estimator, get_filter_method, q_range, all_variants,
                   next_task, results, evaluation, bundle, error>>

\* an iterator that yields what a failed task left instead of raising
CollectAny ==
    /\ pc = "imap"
    /\ Len(results) < Len(all_variants)
    /\ cache[Len(results) + 1].done
    /\ results' = Append(results, cache[Len(results) + 1].value)
    /\ UNCHANGED <<pc, variable_len, p, q, validation_percent, metric_name,
                   model_name, estimator, get_filter_method, q_range, all_variants,
                   next_task, worker, cache, evaluated, fitted, fresh, evaluation,
                   bundle, error>>

\* list(...) takes the next outcome from the iterator
Collect ==
    /\ pc = "imap"
    /\ Len(results) < Len(all_variants)
    /\ LET i == ImapNext(results, cache)
       IN  /\ i \in 1..Len(all_variants)
           /\ cache[i].done
           /\ cache[i].ok
           /\ results' = Append(results, cache[i].value)
    /\ UNCHANGED <<pc, variable_len, p, q, validation_percent, metric_name,
                   model_name, estimator, get_filter_method, q_range, all_variants,
                   next_task, worker, cache, evaluated, fitted, fresh, evaluation,
                   bundle, error>>

\* the iterator re-raises the exception of the next task; the pool is terminated
Raise ==
    /\ pc = "imap"
    /\ Len(results) < Len(all_variants)
    /\ LET i == ImapNext(results, cache)
       IN  /\ i \in 1..Len(all_variants)
           /\ cache[i].done
           /\ ~cache[i].ok
           /\ error' = cache[i].value
    /\ pc' = "raised"
    /\ worker' = [w \in Workers |-> 0]
    /\ UNCHANGED <<variable_len, p, q, validation_percent, metric_name,
                   model_name, estimator, get_filter_method, q_range, all_variants,
                   next_task, cache, results, evaluated, fitted, fresh, evaluation,
                   bundle>>

\* lines 112-124; sorted_results[0] of an empty list raises IndexError
Return ==
    /\ pc = "imap"
    /\ Len(results) = Len(all_variants)
    /\ IF all_variants = <<>>
       THEN /\ pc' = "raised"
            /\ error' = [exc |-> "IndexError"]
            /\ UNCHANGED bundle
       ELSE /\ pc' = "returned"
            /\ bundle' = GridSearchResult(all_variants, results, variable_len,
                                          validation_percent, metric_name)
            /\ UNCHANGED error
    /\ UNCHANGED <<variable_len, p, q, validation_percent, metric_name,
                   model_name, estimator, get_filter_method, q_range, all_variants,
                   next_task, worker, cache, results, evaluated, fitted, fresh,
                   evaluation>>

NextSearch ==
    \/ \E w \in Workers : TaskStart(w)
    \/ \E w \in Workers : TaskFinish(w)
    \/ Collect
    \/ Raise
    \/ Return

\* SpecSearch: a series split in the middle, Kalman candidates that all have
\* rows to train and test on, an estimator that may fail and whose scores sum
\* to MaxMetric at most; the scheduling and the ranking are explored.
InitSearch ==
    /\ pc = "imap"
    /\ variable_len = SearchLen
    /\ validation_percent = 5
    /\ metric_name \in MetricNames
    /\ model_name \in {"LinearRegression", "NoSuchModel"}
    /\ estimator = [may_fail |-> TRUE,
                    metrics  |-> {m \in {FinalMetrics(a, b, c) :
                                            a \in 0..MaxMetric, b \in 0..MaxMetric,
                                            c \in 0..MaxMetric} :
                                     m.mae + m.mse + m.r2 <= MaxMetric}]
    /\ get_filter_method = "get_kalman_filter"
    /\ all_variants \in {[i \in 1..len |-> KalmanGridParams(i, 1)] : len \in 0..MaxCandidates}
    /\ p = 1
    /\ q = <<>>
    /\ q_range = <<>>
    /\ PoolIdle(all_variants)

SpecSearch == InitSearch /\ [][NextSearch]_vars

\* SpecRows: a search for one candidate, over every short series, every split
\* and every small candidate of the three families, with an estimator that
\* does not fail on rows it is given.
InitRows ==
    /\ pc = "imap"
    /\ variable_len \in 1..MaxLen
    /\ validation_percent \in Tenths
    /\ metric_name = "mae"
    /\ model_name = "LinearRegression"
    /\ estimator = [may_fail |-> FALSE, metrics |-> {FinalMetrics(0, 0, 0)}]
    /\ get_filter_method \in Families
    /\ all_variants \in {<<c>> : c \in SmallVariants(get_filter_method)}
    /\ p = 0
    /\ q = <<>>
    /\ q_range = <<>>
    /\ PoolIdle(all_variants)

SpecRows == InitRows /\ [][NextSearch]_vars

(***************************************************************************)
(* Properties of _grid_search, checked under SpecSearch.  evaluated[i] is  *)
(* a history of what the evaluations of all_variants[i] gave.              *)
(***************************************************************************)
Candidates == 1..Len(all_variants)

\* the chosen metric of the evaluation of candidate i
Score(i) == evaluated[i][1].value[2][metric_name]

\* C1: for a non-empty list, best_params is a member of the list whose chosen
\* metric is optimal: no candidate is strictly smaller for mae and mse, none
\* strictly larger for r2; best_predict and best_metrics are those computed
\* for that candidate (a single candidate is returned for every metric).
C1_BestIsOptimal ==
    pc = "returned" =>
        \E i \in Candidates :
            /\ bundle.best_params = all_variants[i]
            /\ bundle.best_predict = evaluated[i][1].value[1]
            /\ bundle.best_metrics = evaluated[i][1].value[2]
            /\ \A j \in Candidates :
                   IF metric_name = "r2" THEN Score(j) <= Score(i)
                   ELSE Score(j) >= Score(i)

\* a search by r2 returned the second of two candidates, whose r2 is larger
C1_Witness ==
    /\ pc = "returned"
    /\ metric_name = "r2"
    /\ Len(all_variants) = 2
    /\ bundle.best_params = all_variants[2]
    /\ Score(1) < Score(2)

\* C2: among the candidates that share the optimal value of the chosen metric
\* the earliest of the list is selected, in the ascending direction (mae,
\* mse) and in the descending one (r2).
C2_TiesGoToEarliest ==
    pc = "returned" =>
        \A i \in Candidates :
            bundle.best_params = all_variants[i] =>
                \A j \in 1..(i - 1) : Score(j) # Score(i)

\* a search by r2 returned the first of two candidates with the same r2
C2_Witness ==
    /\ pc = "returned"
    /\ metric_name = "r2"
    /\ Len(all_variants) = 2
    /\ Score(1) = Score(2)
    /\ bundle.best_params = all_variants[1]

\* C3: results has one entry per candidate and results[i] is the evaluation of
\* all_variants[i], whatever the interleaving and the order of completion;
\* every candidate is evaluated once, and ranking starts only after all of
\* them have completed.
C3_ResultsInCandidateOrder ==
    /\ Len(results) <= Len(all_variants)
    /\ \A i \in Candidates : Len(evaluated[i]) <= 1
    /\ \A i \in 1..Len(results) :
           /\ Len(evaluated[i]) = 1
           /\ results[i] = evaluated[i][1].value
           /\ \A j \in 1..Len(results[i][1]) : results[i][1][j].by = all_variants[i]
    /\ pc = "returned" =>
           /\ Len(results) = Len(all_variants)
           /\ \A i \in Candidates : Len(evaluated[i]) = 1

\* a search returned after its second candidate had completed before its first
C3_Witness ==
    /\ pc = "returned"
    /\ Len(all_variants) = 2
    /\ model_name = "NoSuchModel"
    /\ fitted[2][3] < fitted[1][3]

C9_FreshEstimatorPerEvaluation ==
    \A i, j \in Candidates :
        (i # j /\ fitted[i] # <<>> /\ fitted[j] # <<>>) => fitted[i] # fitted[j]

(***************************************************************************)
(* Properties of the returned bundle, checked under SpecRows.              *)
(***************************************************************************)
Timestamps(rows) == [j \in 1..Len(rows) |-> rows[j].timestamp]

\* C8: every timestamp of y_test is that of a row at position
\* >= floor(n * (1 - v)) that has a next row, and best_filter is the filtered
\* series of the winning candidate on the timestamps of y_test, in their
\* order.
C8_YTestInTestWindow ==
    pc = "returned" =>
        /\ \A j \in 1..Len(bundle.y_test) :
               \E i \in 0..(variable_len - 2) :
                   /\ i >= (variable_len * (10 - validation_percent)) \div 10
                   /\ bundle.y_test[j] = Timestamp(i)
        /\ Timestamps(bundle.best_filter) = bundle.y_test
        /\ \A j \in 1..Len(bundle.best_filter) :
               bundle.best_filter[j].by = bundle.best_params

\* C10: best_predict has one prediction per entry of y_test, in the same order:
\* the test rows that the evaluation of a candidate keeps after dropping the
\* undefined ones are the rows of y_test, for the winner and for every
\* candidate of a search that returns.
C10_PredictionsAlignWithYTest ==
    pc = "returned" =>
        /\ Timestamps(bundle.best_predict) = bundle.y_test
        /\ \A i \in 1..Len(results) : Timestamps(results[i][1]) = bundle.y_test

\* a search returned a moving-average candidate with a window of several rows,
\* a lag of the filtered series and an AR lag, tested on several rows
C10_Witness ==
    /\ pc = "returned"
    /\ get_filter_method = "get_moving_average_filter"
    /\ bundle.best_params.moving_average >= 2
    /\ bundle.best_params.q >= 1
    /\ bundle.best_params.p >= 1
    /\ Len(bundle.y_test) >= 2

====
